---- MODULE Spec2Model ----
(***************************************************************************)
(* queuectl: a SQLite-backed job queue (src/db.py) and its worker loop     *)
(* (src/worker.py).                                                        *)
(*                                                                         *)
(* The jobs, config and metrics tables are the shared state.  Every SQL    *)
(* statement, and every transaction the code opens, is one atomic step.    *)
(* record_job_failure reads (the config, then the row by a SELECT that     *)
(* precedes the implicit BEGIN) and only then writes in a transaction: it  *)
(* is two steps of the calling worker, the reads and the write.  The       *)
(* clock is read in the step that uses it.  Running the command            *)
(* (execute_job) is a step of its own, between the claim and the record    *)
(* of the outcome.                                                         *)
(*                                                                         *)
(* Timestamps are TEXT columns and the claim query compares them as text.  *)
(* Stamps written by the code itself are datetime.now(timezone.utc)        *)
(* .isoformat() strings, whose text order is their time order, so they are *)
(* integers (ticks).  run_at is stored as the caller wrote it, with the    *)
(* UTC offset of the caller's choice: it is the pair of the local time     *)
(* written and the offset suffix, compared as the text is compared.        *)
(***************************************************************************)
EXTENDS Integers, FiniteSets, Sequences, TLC

VARIABLES
    jobs,       \* the jobs table: job id -> row, for the ids inserted so far
    config,     \* the config table: key -> value, NULL when the key has no row
    metrics,    \* the metrics table: jobs_completed, jobs_failed
    now,        \* the wall clock, datetime.now(timezone.utc)
    running,    \* Worker.running of each worker process
    pc,         \* where each worker is in Worker.run / record_job_failure
    held,       \* the local `job` of Worker.run: the id claimed, or NoJob
    result,     \* the local `result` of Worker.run: execute_job's JobResult
    w_base,     \* record_job_failure's local BACKOFF_BASE_SECONDS
    w_row,      \* record_job_failure's local `job` (the SELECTed row), or NoRow
    ret,        \* the Job Store call made in the last step by a caller of the
                \* API, with what it returned; NoCall when the step was no such
                \* call
    executions  \* history: how many times execute_job has run each job's
                \* command since the job was created or last revived

vars == <<jobs, config, metrics, now, running, pc, held, result, w_base, w_row, ret,
          executions>>

----------------------------------------------------------------------------
(* Bounds of the model *)

NumJobs == 2
NumWorkers == 2
MaxTime == 2
MaxPriority == 1
MaxCfg == 2
MaxDelay == 1
MaxMetric == 2

JobIds == 1..NumJobs
Workers == 1..NumWorkers
Priorities == 0..MaxPriority
CfgValues == 1..MaxCfg
\* UTC offsets a caller may write in run_at, in ticks: west of UTC (-2),
\* UTC, east of UTC (+1)
Offsets == {-2, 0, 1}

----------------------------------------------------------------------------
(* models.py and the schema *)

PENDING == "pending"
PROCESSING == "processing"
COMPLETED == "completed"
FAILED == "failed"
DEAD == "dead"
JobState == {PENDING, PROCESSING, COMPLETED, FAILED, DEAD}

NULL == -1
NoJob == 0
NoRow == [attempts |-> -1, max_retries |-> -1]
NoRunAt == [local |-> -1, off |-> 0]
NoCall == [op |-> "none", id |-> NoJob, run_at |-> NoRunAt, val |-> "None"]

\* Commands: the two of test_core_flow.py, one that always exits 0 and one
\* that never does; a command whose exit status depends on the run; a
\* command that outlasts its timeout; a command subprocess.run cannot start
\* (it raises, e.g. ValueError on an embedded NUL)
CMD_PASS == "echo Test Pass"
CMD_FAIL == "notarealcommand"
CMD_ANY == "sh job.sh"
CMD_SLOW == "sleep 3600"
CMD_BAD == "echo \\0"

\* The error texts of a JobResult: the stderr of a command that failed, the
\* stderr of a command that ran well (nothing), and the two messages
\* execute_job writes itself
ERR_STDERR == "stderr"
ERR_QUIET == ""
ERR_TIMEOUT == "Job timed out after {timeout} seconds."
ERR_THROWN == "An error occurred during command execution: {e}"
NoError == "NULL"

\* The output texts of a JobResult: what the command wrote on stdout, and the
\* empty string of the returns that captured nothing
OUT_STDOUT == "stdout"
OUT_EMPTY == ""
NoOutput == "NULL"

\* JobResult(success, output, error) as execute_job builds it on its four returns
Succeeded == [success |-> TRUE, output |-> OUT_STDOUT, error |-> ERR_QUIET]
ExitedNonZero == [success |-> FALSE, output |-> OUT_STDOUT, error |-> ERR_STDERR]
TimedOut == [success |-> FALSE, output |-> OUT_EMPTY, error |-> ERR_TIMEOUT]
Threw == [success |-> FALSE, output |-> OUT_EMPTY, error |-> ERR_THROWN]
NoResult == [success |-> FALSE, output |-> NoOutput, error |-> NoError]

\* What running the command can return
Outcomes(command) ==
    CASE command = CMD_PASS -> {Succeeded}
      [] command = CMD_FAIL -> {ExitedNonZero}
      [] command = CMD_ANY  -> {Succeeded, ExitedNonZero}
      [] command = CMD_SLOW -> {TimedOut}
      [] command = CMD_BAD  -> {Threw}

\* datetime.max, in ticks from the origin, and a backoff base config_set
\* accepts whose first delay already passes it (in seconds: year 9999 is some
\* 2.5e11 s away, 1000000000000 ** 1 is more)
DatetimeMax == 100
HugeBase == 1000

DEFAULT_MAX_RETRIES == 3
DEFAULT_BACKOFF_BASE == 2
DEFAULT_TIMEOUT == 60

\* get_config(key, default): the row's value, or the default when no row
get_config(cfg, key, default) ==
    IF cfg[key] # NULL THEN cfg[key] ELSE default

\* an isoformat() string of a UTC datetime
UtcText(t) == [local |-> t, off |-> 0]

\* The order of the offset suffixes as text: "+00:00" < "+01:00" < "-01:00"
\* ('+' is 0x2B, '-' is 0x2D).
SuffixRank(off) == IF off >= 0 THEN off ELSE 100 - off

\* a <= b on two timestamp strings, as SQLite compares TEXT: the local
\* date and time first, the offset suffix last
TextLeq(a, b) ==
    \/ a.local < b.local
    \/ a.local = b.local /\ SuffixRank(a.off) <= SuffixRank(b.off)

RECURSIVE Pow(_, _)
Pow(b, k) == IF k = 0 THEN 1 ELSE b * Pow(b, k - 1)

----------------------------------------------------------------------------
(* db.py: the statements on the tables, as functions of the tables *)

\* Mutant of NewRow: max_retries left to the column default, the config not
\* read
NewRowSchemaDefault(cfg, n, command, run_at, priority, timeout) ==
    [ command     |-> command,
      output      |-> NoOutput,
      error       |-> NoError,
      state       |-> PENDING,
      attempts    |-> 0,
      max_retries |-> DEFAULT_MAX_RETRIES,
      created_at  |-> n,
      updated_at  |-> n,
      retry_at    |-> NULL,
      run_at      |-> IF run_at # NoRunAt THEN run_at ELSE UtcText(n),
      priority    |-> priority,
      timeout     |-> timeout ]

\* create_job's row: PENDING, attempts 0, max_retries from the config (default
\* 3), created_at = updated_at = now, run_at as given or now
NewRow(cfg, n, command, run_at, priority, timeout) ==
    [ command     |-> command,
      output      |-> NoOutput,
      error       |-> NoError,
      state       |-> PENDING,
      attempts    |-> 0,
      max_retries |-> get_config(cfg, "max_retries", DEFAULT_MAX_RETRIES),
      created_at  |-> n,
      updated_at  |-> n,
      retry_at    |-> NULL,
      run_at      |-> IF run_at # NoRunAt THEN run_at ELSE UtcText(n),
      priority    |-> priority,
      timeout     |-> timeout ]

\* Mutant of CreateRows: INSERT OR REPLACE, an existing row is overwritten
CreateRowsReplace(js, cfg, j, command, run_at, priority, timeout, n) ==
    IF j \in DOMAIN js
    THEN [js EXCEPT ![j] = NewRow(cfg, n, command, run_at, priority, timeout)]
    ELSE js @@ (j :> NewRow(cfg, n, command, run_at, priority, timeout))

\* create_job's INSERT: an existing id raises IntegrityError and the table
\* is as it was
CreateRows(js, cfg, j, command, run_at, priority, timeout, n) ==
    IF j \in DOMAIN js
    THEN js
    ELSE js @@ (j :> NewRow(cfg, n, command, run_at, priority, timeout))

\* create_job's return value: True after the INSERT, False on IntegrityError
CreateReturn(js, j) == IF j \in DOMAIN js THEN "False" ELSE "True"

\* Mutant of QueryEligible: the 'failed' branch is missing, a job that failed
\* is not taken again
QueryEligiblePendingOnly(js, n) ==
    { j \in DOMAIN js :
        js[j].state = PENDING /\ TextLeq(js[j].run_at, UtcText(n)) }

\* Mutant of QueryEligible: the subquery tests run_at without the state
\* (a row already 'processing' qualifies again)
QueryEligibleAnyState(js, n) ==
    { j \in DOMAIN js :
        \/ js[j].state \in {PENDING, PROCESSING} /\ TextLeq(js[j].run_at, UtcText(n))
        \/ js[j].state = FAILED /\ js[j].retry_at # NULL /\ js[j].retry_at <= n }

\* The WHERE clause of find_next_job's subquery: 'pending' with run_at <= now,
\* or 'failed' with retry_at <= now (a NULL retry_at compares as not true)
QueryEligible(js, n) ==
    { j \in DOMAIN js :
        \/ js[j].state = PENDING /\ TextLeq(js[j].run_at, UtcText(n))
        \/ js[j].state = FAILED /\ js[j].retry_at # NULL /\ js[j].retry_at <= n }

\* ORDER BY priority DESC, created_at ASC LIMIT 1: the rows that can come
\* first (SQLite leaves the order of full ties unspecified)
FirstInOrder(js, n) ==
    { j \in QueryEligible(js, n) :
        \A k \in QueryEligible(js, n) :
            \/ js[k].priority < js[j].priority
            \/ js[k].priority = js[j].priority
               /\ js[k].created_at >= js[j].created_at }

\* Mutant of ClaimRow: retry_at is left as the failure set it
ClaimRowKeepsRetryAt(js, j, n) ==
    [js EXCEPT ![j].state = PROCESSING, ![j].updated_at = n]

\* Mutant of ClaimRow: the claim also clears attempts
ClaimRowResetAttempts(js, j, n) ==
    [js EXCEPT ![j].state = PROCESSING, ![j].updated_at = n, ![j].retry_at = NULL,
               ![j].attempts = 0]

\* UPDATE jobs SET state = 'processing', updated_at = now, retry_at = NULL
ClaimRow(js, j, n) ==
    [js EXCEPT ![j].state = PROCESSING, ![j].updated_at = n, ![j].retry_at = NULL]

\* Mutant of SuccessRows: the UPDATE without its WHERE clause, every row
\* is written
SuccessRowsNoWhere(js, j, output, n) ==
    [k \in DOMAIN js |->
        [js[k] EXCEPT !.state = COMPLETED, !.output = output, !.updated_at = n]]

\* log_job_success's UPDATE jobs SET state, output, updated_at WHERE id = ?:
\* no row, no change
SuccessRows(js, j, output, n) ==
    IF j \in DOMAIN js
    THEN [js EXCEPT ![j].state = COMPLETED, ![j].output = output,
                    ![j].updated_at = n]
    ELSE js

\* Mutant of IsExhausted: > for >=
IsExhaustedStrict(new_attempts, max_retries) == new_attempts > max_retries

\* record_job_failure's decision: new_attempts >= the row's max_retries
IsExhausted(new_attempts, max_retries) == new_attempts >= max_retries

\* record_job_failure's backoff: BACKOFF_BASE_SECONDS ** new_attempts
DelaySeconds(base, new_attempts) == Pow(base, new_attempts)

\* now + timedelta(seconds=delay_seconds) raises OverflowError when the sum
\* is past datetime.max (and timedelta() itself does for a larger delay yet)
Overflows(n, delay) == n + delay > DatetimeMax

\* record_job_failure raises on its FAILED branch when the retry time cannot
\* be represented; the exception is no sqlite3.Error, so it leaves the
\* function, the `with conn:` block having rolled the transaction back
FailureRaises(row, base, n) ==
    /\ row # NoRow
    /\ ~IsExhausted(row.attempts + 1, row.max_retries)
    /\ Overflows(n, DelaySeconds(base, row.attempts + 1))

\* record_job_failure's UPDATE, from the row it SELECTed earlier
FailureRows(js, j, row, base, error, n) ==
    LET new_attempts == row.attempts + 1
        dead == IsExhausted(new_attempts, row.max_retries)
    IN  IF j \in DOMAIN js /\ ~FailureRaises(row, base, n)
        THEN [js EXCEPT
                ![j].state = IF dead THEN DEAD ELSE FAILED,
                ![j].attempts = new_attempts,
                ![j].error = error,
                ![j].updated_at = n,
                ![j].retry_at = IF dead THEN NULL
                                ELSE n + DelaySeconds(base, new_attempts)]
        ELSE js

\* Mutant of RetryRows: WHERE id = ? without the state test
RetryRowsAnyState(js, j, n) ==
    IF j \in DOMAIN js
    THEN [js EXCEPT ![j].state = PENDING, ![j].attempts = 0,
                    ![j].updated_at = n, ![j].retry_at = NULL]
    ELSE js

\* retry_dead_job's UPDATE ... WHERE id = ? AND state = 'dead'
RetryRows(js, j, n) ==
    IF j \in DOMAIN js /\ js[j].state = DEAD
    THEN [js EXCEPT ![j].state = PENDING, ![j].attempts = 0,
                    ![j].updated_at = n, ![j].retry_at = NULL]
    ELSE js

\* Mutant of RetryReturn: True whenever the UPDATE ran without an error
RetryReturnNoRowcount(js, j) == "True"

\* retry_dead_job's return value: cursor.rowcount > 0
RetryReturn(js, j) ==
    IF j \in DOMAIN js /\ js[j].state = DEAD THEN "True" ELSE "False"

\* The history of executions after retry_dead_job(j): a job that is revived
\* starts a new life, with no execution yet
Revived(ex, js, j) ==
    IF RetryReturn(js, j) = "True" THEN [ex EXCEPT ![j] = 0] ELSE ex

\* SELECT attempts, max_retries FROM jobs WHERE id = ?
SelectRow(js, j) ==
    IF j \in DOMAIN js
    THEN [attempts |-> js[j].attempts, max_retries |-> js[j].max_retries]
    ELSE NoRow

Bump(m, key) == [m EXCEPT ![key] = @ + 1]

\* Mutant of FailureMetrics: one more increment when the failure exhausts the
\* job (the move to the DLQ counted as well)
FailureMetricsCountsDlq(m, row, base, n) ==
    IF row = NoRow \/ FailureRaises(row, base, n) THEN m
    ELSE IF IsExhausted(row.attempts + 1, row.max_retries)
         THEN Bump(Bump(m, "jobs_failed"), "jobs_failed")
         ELSE Bump(m, "jobs_failed")

\* Mutant of FailureMetrics: the counter is raised before the row is looked up
FailureMetricsUnchecked(m, row, base, n) == Bump(m, "jobs_failed")

\* record_job_failure's UPDATE metrics: reached only when the SELECT found
\* the row, once per call whichever state the job is given, and rolled back
\* with the transaction when the call raises
FailureMetrics(m, row, base, n) ==
    IF row = NoRow \/ FailureRaises(row, base, n) THEN m
    ELSE Bump(m, "jobs_failed")

----------------------------------------------------------------------------
(* Initial state: initialize_db has run, the workers are about to enter run() *)

Init ==
    /\ jobs = << >>
    /\ config = [max_retries |-> NULL, backoff_base |-> NULL]
    /\ metrics = [jobs_completed |-> 0, jobs_failed |-> 0]
    /\ now = 0
    /\ running = [w \in Workers |-> TRUE]
    /\ pc = [w \in Workers |-> "poll"]
    /\ held = [w \in Workers |-> NoJob]
    /\ result = [w \in Workers |-> NoResult]
    /\ w_base = [w \in Workers |-> NULL]
    /\ w_row = [w \in Workers |-> NoRow]
    /\ ret = NoCall
    /\ executions = [j \in JobIds |-> 0]

workerVars == <<running, pc, held, result, w_base, w_row>>

\* The run_at a caller can pass at time n: none, or an instant n + d written
\* with a UTC offset o (the local time written is the instant plus the
\* offset); enqueue accepts whatever datetime.fromisoformat parses
AnyRunAtInputs(n) ==
    {NoRunAt} \cup
    { [local |-> n + d + o, off |-> o] : d \in 0..MaxDelay, o \in Offsets }

----------------------------------------------------------------------------
(* worker.py: Worker.run, one action per step of the loop *)

\* while self.running: job = find_next_job() -- the UPDATE ... RETURNING
find_next_job(w) ==
    /\ pc[w] = "poll"
    /\ running[w]
    /\ IF FirstInOrder(jobs, now) = {}
       THEN /\ held' = [held EXCEPT ![w] = NoJob]
            /\ pc' = [pc EXCEPT ![w] = "sleep"]
            /\ jobs' = jobs
       ELSE \E j \in FirstInOrder(jobs, now) :
            /\ jobs' = ClaimRow(jobs, j, now)
            /\ held' = [held EXCEPT ![w] = j]
            /\ pc' = [pc EXCEPT ![w] = "exec"]
    /\ UNCHANGED <<config, metrics, now, running, result, w_base, w_row, ret, executions>>

\* time.sleep(5), then the loop test again
Sleep(w) ==
    /\ pc[w] = "sleep"
    /\ pc' = [pc EXCEPT ![w] = "poll"]
    /\ UNCHANGED <<jobs, config, metrics, now, running, held, result, w_base, w_row, ret, executions>>

\* The worker holds a claimed job whose outcome it has not recorded yet
InFlight(w) == pc[w] \in {"exec", "report", "fail_write"}

\* result = execute_job(command, timeout): the command of the claimed row
\* runs to one of its outcomes
execute_job(w) ==
    /\ pc[w] = "exec"
    /\ \E r \in Outcomes(jobs[held[w]].command) :
          result' = [result EXCEPT ![w] = r]
    /\ pc' = [pc EXCEPT ![w] = "report"]
    /\ executions' = [executions EXCEPT ![held[w]] = @ + 1]
    /\ UNCHANGED <<jobs, config, metrics, now, running, held, w_base, w_row, ret>>

\* if result.success:
ReportsSuccess(r) == r.success

\* result.success: log_job_success(job_id, output), one transaction (UPDATE
\* jobs, UPDATE metrics, commit)
log_job_success(w) ==
    /\ pc[w] = "report"
    /\ ReportsSuccess(result[w])
    /\ jobs' = SuccessRows(jobs, held[w], result[w].output, now)
    /\ metrics' = Bump(metrics, "jobs_completed")
    /\ pc' = [pc EXCEPT ![w] = "poll"]
    /\ result' = [result EXCEPT ![w] = NoResult]
    /\ UNCHANGED <<config, now, running, held, w_base, w_row, ret, executions>>

\* else: record_job_failure(job_id, result.error) reads backoff_base from the
\* config, then SELECTs attempts and max_retries; both reads come before the
\* first write, so outside the transaction.  No row: return.
record_failure_read(w) ==
    /\ pc[w] = "report"
    /\ ~ReportsSuccess(result[w])
    /\ IF SelectRow(jobs, held[w]) = NoRow
       THEN /\ pc' = [pc EXCEPT ![w] = "poll"]
            /\ result' = [result EXCEPT ![w] = NoResult]
            /\ UNCHANGED <<w_row, w_base>>
       ELSE /\ pc' = [pc EXCEPT ![w] = "fail_write"]
            /\ w_row' = [w_row EXCEPT ![w] = SelectRow(jobs, held[w])]
            /\ w_base' = [w_base EXCEPT ![w] =
                             get_config(config, "backoff_base", DEFAULT_BACKOFF_BASE)]
            /\ UNCHANGED result
    /\ UNCHANGED <<jobs, config, metrics, now, running, held, ret, executions>>

\* record_job_failure: UPDATE metrics, UPDATE jobs (the error stored), commit.
\* When it raises, the exception leaves Worker.run too: run_worker_process
\* prints "crashed with error" and the process ends.
record_failure_write(w) ==
    /\ pc[w] = "fail_write"
    /\ metrics' = FailureMetrics(metrics, w_row[w], w_base[w], now)
    /\ jobs' = FailureRows(jobs, held[w], w_row[w], w_base[w], result[w].error, now)
    /\ pc' = [pc EXCEPT ![w] = IF FailureRaises(w_row[w], w_base[w], now)
                                THEN "raised" ELSE "poll"]
    /\ result' = [result EXCEPT ![w] = NoResult]
    /\ w_base' = [w_base EXCEPT ![w] = NULL]
    /\ w_row' = [w_row EXCEPT ![w] = NoRow]
    /\ UNCHANGED <<config, now, running, held, ret, executions>>

----------------------------------------------------------------------------
(* queuectl.py: the clients (enqueue, dlq retry, config set) and the clock *)

\* create_job(job_id, command, run_at, priority, timeout): the INSERT fails on an
\* existing id (IntegrityError) and nothing changes.  Ids are opaque strings
\* that the code only tests for equality, so fresh ids are taken in order.
create_job(j, command, run_at, priority, timeout) ==
    /\ j \in DOMAIN jobs \/ j = Cardinality(DOMAIN jobs) + 1
    /\ jobs' = CreateRows(jobs, config, j, command, run_at, priority, timeout, now)
    /\ UNCHANGED <<config, metrics, now, workerVars, executions>>

\* retry_dead_job(job_id)
retry_dead_job(j) ==
    /\ metrics.jobs_failed < MaxMetric
    /\ jobs' = RetryRows(jobs, j, now)
    /\ executions' = Revived(executions, jobs, j)
    /\ UNCHANGED <<config, metrics, now, workerVars>>

\* set_config(key, value), with the positive integers config_set lets through
set_config(key, v) ==
    /\ config' = [config EXCEPT ![key] = v]
    /\ UNCHANGED <<jobs, metrics, now, workerVars, executions>>

\* Time passes; no Job Store call is made in this step
Tick ==
    /\ now < MaxTime
    /\ now' = now + 1
    /\ ret' = NoCall
    /\ UNCHANGED <<jobs, config, metrics, workerVars, executions>>

\* enqueue '{"id": ..., "command": ...}': no run_at, the default priority 0
Enqueue == \E j \in JobIds : create_job(j, CMD_ANY, NoRunAt, 0, DEFAULT_TIMEOUT) /\ UNCHANGED ret

\* enqueue with a run_at and a priority in the payload
EnqueueAnyOffset ==
    \E j \in JobIds, p \in Priorities : \E r \in AnyRunAtInputs(now) :
        create_job(j, CMD_ANY, r, p, DEFAULT_TIMEOUT) /\ UNCHANGED ret

DlqRetry == \E j \in JobIds : retry_dead_job(j) /\ UNCHANGED ret

\* config set max-retries <value>
SetMaxRetries == \E v \in CfgValues : set_config("max_retries", v) /\ UNCHANGED ret

\* config set backoff-base <value>
SetBackoffBase == \E v \in CfgValues : set_config("backoff_base", v) /\ UNCHANGED ret

ConfigSet == SetMaxRetries \/ SetBackoffBase

\* config set backoff-base <value>, any positive integer
SetBackoffBaseAny ==
    \E v \in CfgValues \cup {HugeBase} : set_config("backoff_base", v) /\ UNCHANGED ret

WorkerStep(w) ==
    \/ find_next_job(w)
    \/ Sleep(w)
    \/ execute_job(w)
    \/ log_job_success(w)
    \/ record_failure_read(w)
    \/ record_failure_write(w)

\* Workers, clients enqueueing plain payloads, dlq retry, config set
Next ==
    \/ \E w \in Workers : WorkerStep(w)
    \/ Enqueue
    \/ DlqRetry
    \/ ConfigSet
    \/ Tick

Spec == Init /\ [][Next]_vars

\* Workers and clients enqueueing payloads that carry a priority and a
\* run_at (UTC or with a UTC offset), under the default config
NextSched ==
    \/ \E w \in Workers : WorkerStep(w)
    \/ EnqueueAnyOffset
    \/ DlqRetry
    \/ Tick

SpecSched == Init /\ [][NextSched]_vars

\* enqueue of a job scheduled MaxDelay from now, the run_at written in UTC
\* or with a UTC offset
EnqueueLater ==
    \E j \in JobIds, o \in Offsets :
        /\ create_job(j, CMD_ANY, [local |-> now + MaxDelay + o, off |-> o], 0,
                      DEFAULT_TIMEOUT)
        /\ UNCHANGED ret

\* Workers, clients enqueueing scheduled jobs, dlq retry, and any
\* max_retries configured
NextRevive ==
    \/ \E w \in Workers : WorkerStep(w)
    \/ EnqueueLater
    \/ DlqRetry
    \/ SetMaxRetries
    \/ Tick

SpecRevive == Init /\ [][NextRevive]_vars

\* enqueue of a job whose command can end in any of the ways execute_job
\* tells apart
EnqueueCommand ==
    \E j \in JobIds, c \in {CMD_ANY, CMD_SLOW, CMD_BAD} :
        create_job(j, c, NoRunAt, 0, DEFAULT_TIMEOUT) /\ UNCHANGED ret

\* Workers running commands that succeed, exit non-zero, time out or cannot
\* be run, under any max_retries
NextExec ==
    \/ \E w \in Workers : WorkerStep(w)
    \/ EnqueueCommand
    \/ SetMaxRetries
    \/ Tick

SpecExec == Init /\ [][NextExec]_vars

----------------------------------------------------------------------------
(* Shutdown: run_worker_process's signal handler and the end of Worker.run *)

\* SIGINT or SIGTERM reaches the worker process: shutdown() calls w.stop(),
\* wherever the loop is
Stop(w) ==
    /\ running[w]
    /\ pc[w] # "stopped"
    /\ running' = [running EXCEPT ![w] = FALSE]
    /\ UNCHANGED <<jobs, config, metrics, now, pc, held, result, w_base, w_row, ret, executions>>

\* while self.running: is false, run() returns and the process ends
Exit(w) ==
    /\ pc[w] = "poll"
    /\ ~running[w]
    /\ pc' = [pc EXCEPT ![w] = "stopped"]
    /\ UNCHANGED <<jobs, config, metrics, now, running, held, result, w_base, w_row, ret, executions>>

\* The worker processes with the signals that stop them, and clients that
\* enqueue
NextStop ==
    \/ \E w \in Workers : WorkerStep(w)
    \/ \E w \in Workers : Stop(w)
    \/ \E w \in Workers : Exit(w)
    \/ Enqueue
    \/ Tick

\* Each worker process keeps being scheduled, and the command it runs ends
\* (subprocess.run returns, by the timeout at the latest)
FairStop == \A w \in Workers : WF_vars(WorkerStep(w) \/ Exit(w))

SpecStop == Init /\ [][NextStop]_vars /\ FairStop

\* The same with a backoff base of any size configured
NextRange ==
    \/ \E w \in Workers : WorkerStep(w)
    \/ \E w \in Workers : Stop(w)
    \/ \E w \in Workers : Exit(w)
    \/ Enqueue
    \/ SetBackoffBaseAny
    \/ Tick

SpecRange == Init /\ [][NextRange]_vars /\ FairStop

\* The worker process is killed (SIGKILL, power loss) between the claim of a
\* job and the record of its outcome
Crash(w) ==
    /\ InFlight(w)
    /\ pc' = [pc EXCEPT ![w] = "crashed"]
    /\ UNCHANGED <<jobs, config, metrics, now, running, held, result, w_base, w_row, ret, executions>>

\* Workers that may be killed, clients that enqueue, revive dead jobs and set
\* max_retries
NextCrash ==
    \/ \E w \in Workers : WorkerStep(w)
    \/ \E w \in Workers : Crash(w)
    \/ Enqueue
    \/ DlqRetry
    \/ SetMaxRetries
    \/ Tick

SpecCrash == Init /\ [][NextCrash]_vars

----------------------------------------------------------------------------
(* The queue run to its end: a clock that never stops, fair workers *)

\* list_jobs_by_state(state): the ids of the rows in that state
list_jobs_by_state(js, state) == { j \in DOMAIN js : js[j].state = state }

\* A timestamp one tick nearer to the origin of the window, the origin
\* standing for every instant at or before it
Back(t) == IF t > 0 THEN t - 1 ELSE 0

RowBack(r) ==
    [r EXCEPT !.created_at = Back(@),
              !.updated_at = Back(@),
              !.retry_at = IF @ = NULL THEN NULL ELSE Back(@),
              !.run_at = [@ EXCEPT !.local = Back(@)]]

\* Time passes, without end.  The clock is kept inside 0..MaxTime by moving
\* the window: at MaxTime a tick leaves `now` where it is and brings every
\* stored timestamp one tick back.  The code only compares timestamps with
\* now (<=) and created_at with created_at, so what a future timestamp is
\* compared with is kept exactly; two created_at that reach the origin tie,
\* and FirstInOrder then allows either job where the code takes the older.
TickLive ==
    /\ IF now < MaxTime
       THEN now' = now + 1 /\ jobs' = jobs
       ELSE now' = now /\ jobs' = [j \in DOMAIN jobs |-> RowBack(jobs[j])]
    /\ ret' = NoCall
    /\ UNCHANGED <<config, metrics, workerVars, executions>>

\* The jobs of test_core_flow.py (a command that succeeds, one that always
\* fails) and jobs whose command may do either
EnqueueTest ==
    \E j \in JobIds, c \in {CMD_PASS, CMD_FAIL, CMD_ANY} :
        create_job(j, c, NoRunAt, 0, DEFAULT_TIMEOUT) /\ UNCHANGED ret

NextLive ==
    \/ \E w \in Workers : WorkerStep(w)
    \/ EnqueueTest
    \/ TickLive

\* Every worker process keeps running and is scheduled, the commands end,
\* and time advances
FairLive ==
    /\ \A w \in Workers : WF_vars(WorkerStep(w))
    /\ WF_vars(TickLive)

SpecLive == Init /\ [][NextLive]_vars /\ FairLive

----------------------------------------------------------------------------
(* Storage failures: the database is locked by another process, or its file *)
(* cannot be opened, for a while                                            *)

\* The storage fails during the ticks between the first and the last of the
\* clock's window, and works before and ever after
StorageDown == 0 < now /\ now < MaxTime

\* find_next_job when conn.execute raises (database is locked): the except
\* clause prints, rolls back and returns None, and Worker.run sleeps
find_next_job_locked(w) ==
    /\ pc[w] = "poll"
    /\ running[w]
    /\ StorageDown
    /\ held' = [held EXCEPT ![w] = NoJob]
    /\ pc' = [pc EXCEPT ![w] = "sleep"]
    /\ UNCHANGED <<jobs, config, metrics, now, running, result, w_base, w_row, ret, executions>>

\* find_next_job when sqlite3.connect raises (unable to open database file):
\* get_db_connection() is called before the try, the exception leaves
\* Worker.run and the worker process ends
find_next_job_no_file(w) ==
    /\ pc[w] = "poll"
    /\ running[w]
    /\ StorageDown
    /\ pc' = [pc EXCEPT ![w] = "raised"]
    /\ UNCHANGED <<jobs, config, metrics, now, running, held, result, w_base, w_row, ret, executions>>

\* log_job_success when the storage fails either way: the sqlite3.Error is
\* caught and printed, nothing is written, and Worker.run goes on to its
\* next iteration
log_job_success_fails(w) ==
    /\ pc[w] = "report"
    /\ ReportsSuccess(result[w])
    /\ StorageDown
    /\ pc' = [pc EXCEPT ![w] = "poll"]
    /\ result' = [result EXCEPT ![w] = NoResult]
    /\ UNCHANGED <<jobs, config, metrics, now, running, held, w_base, w_row, ret, executions>>

\* record_job_failure when its SELECT or one of its UPDATEs raises (database
\* is locked): the sqlite3.Error is caught and printed, the transaction
\* rolled back, and Worker.run goes on to its next iteration
record_job_failure_locked(w) ==
    /\ \/ pc[w] = "report" /\ ~ReportsSuccess(result[w])
       \/ pc[w] = "fail_write"
    /\ StorageDown
    /\ pc' = [pc EXCEPT ![w] = "poll"]
    /\ result' = [result EXCEPT ![w] = NoResult]
    /\ w_base' = [w_base EXCEPT ![w] = NULL]
    /\ w_row' = [w_row EXCEPT ![w] = NoRow]
    /\ UNCHANGED <<jobs, config, metrics, now, running, held, ret, executions>>

\* record_job_failure when sqlite3.connect raises: get_config catches its
\* own error, then get_db_connection() is called before the try and the
\* exception leaves Worker.run
record_job_failure_no_file(w) ==
    /\ pc[w] = "report"
    /\ ~ReportsSuccess(result[w])
    /\ StorageDown
    /\ pc' = [pc EXCEPT ![w] = "raised"]
    /\ UNCHANGED <<jobs, config, metrics, now, running, held, result, w_base, w_row, ret, executions>>

StorageFails(w) ==
    \/ find_next_job_locked(w)
    \/ find_next_job_no_file(w)
    \/ log_job_success_fails(w)
    \/ record_job_failure_locked(w)
    \/ record_job_failure_no_file(w)

\* The workers on a storage that fails for a while, clients that enqueue, a
\* clock that never stops
NextOutage ==
    \/ \E w \in Workers : WorkerStep(w)
    \/ \E w \in Workers : StorageFails(w)
    \/ Enqueue
    \/ TickLive

SpecOutage == Init /\ [][NextOutage]_vars /\ FairLive

----------------------------------------------------------------------------
(* The Job Store operations called one after the other by any caller, with  *)
(* any id: each action is one whole call.                                   *)

\* create_job(job_id, command): no run_at, the default priority
ApiCreate ==
    \E j \in JobIds :
        /\ create_job(j, CMD_ANY, NoRunAt, 0, DEFAULT_TIMEOUT)
        /\ ret' = [op |-> "create_job", id |-> j, run_at |-> NoRunAt, val |-> CreateReturn(jobs, j)]

\* find_next_job(): the row claimed, or None
ApiClaimNext ==
    /\ IF FirstInOrder(jobs, now) = {}
       THEN /\ jobs' = jobs
            /\ ret' = [op |-> "find_next_job", id |-> NoJob, run_at |-> NoRunAt, val |-> "None"]
       ELSE \E j \in FirstInOrder(jobs, now) :
            /\ jobs' = ClaimRow(jobs, j, now)
            /\ ret' = [op |-> "find_next_job", id |-> j, run_at |-> NoRunAt, val |-> "row"]
    /\ UNCHANGED <<config, metrics, now, workerVars, executions>>

\* log_job_success(job_id, output): both UPDATEs run whether or not the id
\* matches a row
ApiRecordSuccess(j) ==
    /\ metrics.jobs_completed < MaxMetric
    /\ jobs' = SuccessRows(jobs, j, OUT_STDOUT, now)
    /\ metrics' = Bump(metrics, "jobs_completed")
    /\ ret' = [op |-> "log_job_success", id |-> j, run_at |-> NoRunAt, val |-> "None"]
    /\ UNCHANGED <<config, now, workerVars, executions>>

\* record_job_failure(job_id, error): returns before any write when the
\* SELECT finds no row
ApiRecordFailure(j) ==
    /\ metrics.jobs_failed < MaxMetric
    /\ metrics' = FailureMetrics(metrics, SelectRow(jobs, j),
                        get_config(config, "backoff_base", DEFAULT_BACKOFF_BASE), now)
    /\ jobs' = IF SelectRow(jobs, j) = NoRow
               THEN jobs
               ELSE FailureRows(jobs, j, SelectRow(jobs, j),
                        get_config(config, "backoff_base", DEFAULT_BACKOFF_BASE),
                        ERR_STDERR, now)
    /\ ret' = [op |-> "record_job_failure", id |-> j, run_at |-> NoRunAt, val |-> "None"]
    /\ UNCHANGED <<config, now, workerVars, executions>>

ApiRetryDead(j) ==
    /\ jobs' = RetryRows(jobs, j, now)
    /\ ret' = [op |-> "retry_dead_job", id |-> j, run_at |-> NoRunAt, val |-> RetryReturn(jobs, j)]
    /\ executions' = Revived(executions, jobs, j)
    /\ UNCHANGED <<config, metrics, now, workerVars>>

\* set_config("max_retries", value); the backoff base stays the default
ApiSetMaxRetries ==
    \E v \in CfgValues :
        /\ set_config("max_retries", v)
        /\ ret' = [op |-> "set_config", id |-> NoJob, run_at |-> NoRunAt, val |-> "True"]

NextApi ==
    \/ ApiCreate
    \/ ApiClaimNext
    \/ \E j \in JobIds : ApiRecordSuccess(j)
    \/ \E j \in JobIds : ApiRecordFailure(j)
    \/ \E j \in JobIds : ApiRetryDead(j)
    \/ ApiSetMaxRetries
    \/ Tick

SpecApi == Init /\ [][NextApi]_vars

\* create_job called with any payload (a run_at with or without a UTC offset,
\* a priority) and any id, among calls that move the rows created
ApiCreateAny ==
    \E j \in JobIds, p \in Priorities : \E r \in AnyRunAtInputs(now) :
        /\ create_job(j, CMD_ANY, r, p, DEFAULT_TIMEOUT)
        /\ ret' = [op |-> "create_job", id |-> j, run_at |-> r, val |-> CreateReturn(jobs, j)]

NextCreate ==
    \/ ApiCreateAny
    \/ ApiClaimNext
    \/ \E j \in JobIds : ApiRecordFailure(j)
    \/ Tick

SpecCreate == Init /\ [][NextCreate]_vars

----------------------------------------------------------------------------
(* queuectl.py: the enqueue command, on any JSON payload *)

\* What data.get() gives for a key the payload has not, and a run_at string
\* datetime.fromisoformat cannot parse ("tomorrow")
NoCommand == "None"
NotIso == [local |-> -2, off |-> 0]

\* The integers a payload can carry as priority and as timeout
PriorityInputs == -1..MaxPriority
TimeoutInputs == {-1, 0, DEFAULT_TIMEOUT}

\* The payloads at time n: id and command present or not, run_at absent, an
\* ISO 8601 time (now, in UTC) or unparsable, any priority, any timeout
Payloads(n) ==
    [ id       : JobIds \cup {NoJob},
      command  : {CMD_ANY, NoCommand},
      run_at   : {NoRunAt, UtcText(n), NotIso},
      priority : PriorityInputs,
      timeout  : TimeoutInputs ]

\* What enqueue prints on its returns
ENQ_MISSING == "Error: JSON payload must include 'id' and 'command'."
ENQ_RUN_AT == "Error: Invalid 'run_at' format. Must be ISO 8601."
ENQ_TIMEOUT == "Error: 'timeout' must be a positive integer."
ENQ_CREATE == "create_job"

\* enqueue's checks in the order of the code: id and command, run_at when
\* there is one, int(priority) (any integer passes), int(timeout) > 0; then
\* the call of create_job
EnqueueCheck(p) ==
    IF p.id = NoJob \/ p.command = NoCommand THEN ENQ_MISSING
    ELSE IF p.run_at # NoRunAt /\ p.run_at = NotIso THEN ENQ_RUN_AT
    ELSE IF p.timeout <= 0 THEN ENQ_TIMEOUT
    ELSE ENQ_CREATE

\* queuectl enqueue '<payload>'
enqueue(p) ==
    /\ IF EnqueueCheck(p) = ENQ_CREATE
       THEN create_job(p.id, p.command, p.run_at, p.priority, p.timeout)
       ELSE UNCHANGED <<jobs, config, metrics, now, workerVars, executions>>
    /\ ret' = [op |-> "enqueue", id |-> p.id, run_at |-> p.run_at,
               val |-> EnqueueCheck(p), payload |-> p]

\* Clients enqueueing any payload, and a caller that claims
NextCli ==
    \/ \E p \in Payloads(now) : enqueue(p)
    \/ ApiClaimNext
    \/ Tick

SpecCli == Init /\ [][NextCli]_vars

----------------------------------------------------------------------------
(* record_job_failure called by concurrent callers, each in its own process *)

\* A process calls record_job_failure(j, error) for any id, whether or not
\* it claimed the job: the call's steps are those of the worker's call
CallRecordFailure(w, j) ==
    /\ pc[w] = "poll"
    /\ metrics.jobs_failed < MaxMetric
    /\ held' = [held EXCEPT ![w] = j]
    /\ result' = [result EXCEPT ![w] = ExitedNonZero]
    /\ pc' = [pc EXCEPT ![w] = "report"]
    /\ UNCHANGED <<jobs, config, metrics, now, running, w_base, w_row, ret, executions>>

NextRace ==
    \/ Enqueue
    \/ \E w \in Workers, j \in JobIds : CallRecordFailure(w, j)
    \/ \E w \in Workers : record_failure_read(w)
    \/ \E w \in Workers : record_failure_write(w)
    \/ Tick

SpecRace == Init /\ [][NextRace]_vars

----------------------------------------------------------------------------
(* Vocabulary of the properties *)

\* The worker's last execution failed and its failure is not recorded yet
FailurePending(w) == pc[w] \in {"report", "fail_write"} /\ ~result[w].success

\* The step is worker w's call of find_next_job
ClaimCall(w) == pc[w] = "poll" /\ pc'[w] \in {"exec", "sleep"}

\* The call returned a job (held'[w]) rather than None
Returned(w) == pc'[w] = "exec"

\* The instant a timestamp string denotes
Instant(ts) == ts.local - ts.off

\* The sum of attempts over the rows of the set S
RECURSIVE SumAttempts(_, _)
SumAttempts(js, S) ==
    IF S = {} THEN 0
    ELSE LET j == CHOOSE x \in S : TRUE
         IN  js[j].attempts + SumAttempts(js, S \ {j})

\* Eligible as the data model defines it: PENDING with run_at <= now, or
\* FAILED with retry_at <= now, the timestamps compared as instants
SpecEligible(js, n) ==
    { j \in DOMAIN js :
        \/ js[j].state = PENDING /\ Instant(js[j].run_at) <= n
        \/ js[j].state = FAILED /\ js[j].retry_at # NULL /\ js[j].retry_at <= n }

Holders(j) == { w \in Workers : InFlight(w) /\ held[w] = j }

----------------------------------------------------------------------------
(* C1 *)

\* C1: mutual exclusion.  A job in flight at a worker is PROCESSING, a
\* PROCESSING job is in flight at no more than one worker, and so no two
\* workers hold the same job between its claim and its recorded outcome.
C1_MutualExclusion ==
    /\ \A w \in Workers :
          InFlight(w) => held[w] \in DOMAIN jobs /\ jobs[held[w]].state = PROCESSING
    /\ \A j \in DOMAIN jobs : Cardinality(Holders(j)) <= 1

\* Two workers are in flight at once, each with its own job
C1_Witness ==
    \E v, w \in Workers :
        v # w /\ InFlight(v) /\ InFlight(w) /\ held[v] # held[w]

----------------------------------------------------------------------------
(* C2 *)

\* C2: N concurrent claimNext calls against M >= N eligible jobs all return
\* a job, pairwise distinct.  Stated call by call: a call made while a job
\* is eligible returns a job, one that no other worker holds.
C2_EveryCallClaims ==
    [][ \A w \in Workers :
          ClaimCall(w) /\ SpecEligible(jobs, now) # {}
          => Returned(w) /\ Holders(held'[w]) \ {w} = {} ]_vars

----------------------------------------------------------------------------
(* C3 *)

Allowed(old, new) ==
    \/ old.state = PENDING /\ new.state = PROCESSING
    \/ old.state = FAILED /\ new.state = PROCESSING
    \/ old.state = PROCESSING /\ new.state = COMPLETED
    \/ old.state = PROCESSING /\ new.state = FAILED
       /\ old.attempts + 1 < old.max_retries
    \/ old.state = PROCESSING /\ new.state = DEAD
       /\ old.attempts + 1 >= old.max_retries
    \/ old.state = DEAD /\ new.state = PENDING

\* C3: every change of a job's state is one of the six transitions of the
\* state machine, the failure transitions decided by attempts + 1 against
\* max_retries.
C3_OnlyListedTransitions ==
    [][ \A j \in DOMAIN jobs :
          jobs'[j].state # jobs[j].state => Allowed(jobs[j], jobs'[j]) ]_vars

\* A job claimed again after a failure, beside a job revived from the DLQ
C3_Witness ==
    \E j, k \in DOMAIN jobs :
        /\ jobs[j].state = PROCESSING /\ jobs[j].attempts >= 1
        /\ jobs[k].state = PENDING /\ jobs[k].updated_at > jobs[k].created_at

----------------------------------------------------------------------------
(* C4 *)

\* C4: the job claimNext returns has the maximum priority among the jobs
\* eligible at the call, and the smallest created_at among those of that
\* priority.
C4_PriorityThenFifo ==
    [][ \A w \in Workers :
          ClaimCall(w) /\ Returned(w)
          => \A k \in SpecEligible(jobs, now) :
                \/ jobs[k].priority < jobs[held'[w]].priority
                \/ jobs[k].priority = jobs[held'[w]].priority
                   /\ jobs[k].created_at >= jobs[held'[w]].created_at ]_vars

----------------------------------------------------------------------------
(* C5 *)

\* C5: claimNext(now) returns only a PENDING job with run_at <= now or a
\* FAILED job with retry_at <= now, and when no job is eligible it returns
\* absence and changes no row.
C5_TimeGatedAdmission ==
    [][ \A w \in Workers :
          ClaimCall(w)
          => /\ Returned(w) => held'[w] \in SpecEligible(jobs, now)
             /\ SpecEligible(jobs, now) = {} => ~Returned(w) /\ jobs' = jobs ]_vars

----------------------------------------------------------------------------
(* C6 *)

\* C6: a job whose attempts have reached its max_retries is DEAD.
C6_ExhaustedIsDead ==
    \A j \in DOMAIN jobs :
        jobs[j].attempts >= jobs[j].max_retries => jobs[j].state = DEAD

\* A job died on its second failure, after one retry
C6_Witness ==
    \E j \in DOMAIN jobs :
        jobs[j].state = DEAD /\ jobs[j].attempts >= 2
        /\ jobs[j].attempts >= jobs[j].max_retries

----------------------------------------------------------------------------
(* C7 *)

\* C7 as stated: no operation ever lowers a job's attempts.
C7_AttemptsNeverLowered ==
    [][ \A j \in DOMAIN jobs : jobs'[j].attempts >= jobs[j].attempts ]_vars

\* C7 amended: attempts is lowered only by retryDead taking a DEAD job back
\* to PENDING with attempts 0; every other step leaves it or raises it.
C7_AttemptsLoweredOnlyByRetryDead ==
    [][ \A j \in DOMAIN jobs :
          \/ jobs'[j].attempts >= jobs[j].attempts
          \/ /\ jobs[j].state = DEAD
             /\ jobs'[j].state = PENDING
             /\ jobs'[j].attempts = 0 ]_vars

\* A revived job has failed again: attempts went up, down to 0, and up
C7_Witness ==
    \E j \in DOMAIN jobs :
        /\ jobs[j].attempts >= 1
        /\ metrics.jobs_failed > jobs[j].attempts
        /\ \A k \in DOMAIN jobs : k # j => jobs[k].attempts = 0 /\ jobs[k].state = PENDING

----------------------------------------------------------------------------
(* C8 *)

\* C8: under the Job Store operations called with any ids, a COMPLETED job
\* never changes state and a DEAD job changes state only through retryDead
\* (to PENDING), its state and attempts not written otherwise.
C8_TerminalStatesStable ==
    [][ \A j \in DOMAIN jobs :
          /\ jobs[j].state = COMPLETED => jobs'[j].state = COMPLETED
          /\ jobs[j].state = DEAD
             => \/ jobs'[j].state = DEAD /\ jobs'[j].attempts = jobs[j].attempts
                \/ jobs'[j].state = PENDING ]_vars

----------------------------------------------------------------------------
(* C9 *)

\* C9: recordFailure applied to a job, making its attempts k, leaves the job
\* DEAD with no retry_at iff k >= max_retries, and otherwise FAILED with
\* retry_at = now + backoff_base ** k, the base being the configured value
\* (default 2) that the call read.
C9_BackoffPolicy ==
    [][ \A w \in Workers :
          /\ pc[w] = "report" /\ pc'[w] = "fail_write"
             => w_base'[w] = IF config.backoff_base = NULL THEN 2
                             ELSE config.backoff_base
          /\ pc[w] = "fail_write" /\ pc'[w] # "fail_write"
             => LET j == held[w]
                    k == jobs[j].attempts + 1
                IN  /\ jobs'[j].attempts = k
                    /\ k >= jobs[j].max_retries
                       => jobs'[j].state = DEAD /\ jobs'[j].retry_at = NULL
                    /\ k < jobs[j].max_retries
                       => /\ jobs'[j].state = FAILED
                          /\ jobs'[j].retry_at = now + Pow(w_base[w], k) ]_vars

----------------------------------------------------------------------------
(* C10 *)

\* C10: create stores the max_retries configured at that moment (default
\* 3); no later step changes a job's max_retries, and a failure is decided
\* against the job's own max_retries whatever the config says by then.
C10_MaxRetriesSnapshot ==
    [][ /\ \A j \in DOMAIN jobs' \ DOMAIN jobs :
              jobs'[j].max_retries = IF config.max_retries = NULL THEN 3
                                     ELSE config.max_retries
        /\ \A j \in DOMAIN jobs :
              /\ jobs'[j].max_retries = jobs[j].max_retries
              /\ jobs[j].state = PROCESSING /\ jobs'[j].state \in {FAILED, DEAD}
                 => (jobs'[j].state = DEAD
                       <=> jobs'[j].attempts >= jobs[j].max_retries) ]_vars

\* A failure was decided otherwise than the config of the day would have:
\* the job is FAILED although its attempts reach the configured max_retries
C10_Witness ==
    \E j \in DOMAIN jobs :
        /\ config.max_retries # NULL
        /\ jobs[j].max_retries # config.max_retries
        /\ jobs[j].state = FAILED
        /\ jobs[j].attempts >= config.max_retries

----------------------------------------------------------------------------
(* C11 *)

\* C11: retryDead(id) on an absent job or one that is not DEAD returns false
\* and changes nothing; on a DEAD job it returns true and leaves the job
\* PENDING with attempts 0 and no retry_at.
C11_RetryDeadContract ==
    [][ ret'.op = "retry_dead_job"
        => LET j == ret'.id
           IN  IF j \in DOMAIN jobs /\ jobs[j].state = DEAD
               THEN /\ ret'.val = "True"
                    /\ jobs'[j].state = PENDING
                    /\ jobs'[j].attempts = 0
                    /\ jobs'[j].retry_at = NULL
               ELSE /\ ret'.val = "False"
                    /\ jobs' = jobs
                    /\ metrics' = metrics
                    /\ config' = config ]_vars

\* retryDead has just returned true on a job that had died of its failures
C11_Witness ==
    /\ ret.op = "retry_dead_job"
    /\ ret.val = "True"
    /\ jobs[ret.id].state = PENDING
    /\ jobs[ret.id].attempts = 0
    /\ metrics.jobs_failed >= 1

----------------------------------------------------------------------------
(* C12 *)

\* C12: create with an id that exists reports failure and changes no job,
\* no metric and no config; with a fresh id it reports success and inserts a
\* PENDING job with attempts 0, created_at = updated_at = now and run_at the
\* time supplied, or now when none is, every other job left as it was.
C12_CreateContract ==
    [][ ret'.op = "create_job"
        => LET j == ret'.id
           IN  IF j \in DOMAIN jobs
               THEN /\ ret'.val = "False"
                    /\ jobs' = jobs
                    /\ metrics' = metrics
                    /\ config' = config
               ELSE /\ ret'.val = "True"
                    /\ DOMAIN jobs' = DOMAIN jobs \cup {j}
                    /\ \A k \in DOMAIN jobs : jobs'[k] = jobs[k]
                    /\ jobs'[j].state = PENDING
                    /\ jobs'[j].attempts = 0
                    /\ jobs'[j].created_at = now
                    /\ jobs'[j].updated_at = now
                    /\ jobs'[j].run_at = IF ret'.run_at = NoRunAt THEN UtcText(now)
                                         ELSE ret'.run_at ]_vars

\* create has just been refused for the id of a job that has already failed
\* once, beside a job created with a run_at of its own
C12_Witness ==
    /\ ret.op = "create_job"
    /\ ret.val = "False"
    /\ jobs[ret.id].attempts >= 1
    /\ \E k \in DOMAIN jobs : k # ret.id /\ jobs[k].run_at.off # 0

----------------------------------------------------------------------------
(* C13 *)

\* C13: recordSuccess with an id that does not exist is a no-op: no job row
\* and no metrics counter, jobs_completed included, is changed.
C13_SuccessOnUnknownIdIsNoOp ==
    [][ ret'.op = "log_job_success" /\ ret'.id \notin DOMAIN jobs
        => jobs' = jobs /\ metrics' = metrics ]_vars

----------------------------------------------------------------------------
(* C14 *)

\* C14: recordFailure with an id that does not exist changes no job row and
\* does not increment jobs_failed (nor any other counter).
C14_FailureOnUnknownIdIsNoOp ==
    [][ ret'.op = "record_job_failure" /\ ret'.id \notin DOMAIN jobs
        => jobs' = jobs /\ metrics' = metrics ]_vars

\* recordFailure has just returned for an id that has no row, beside a job
\* that exists
C14_Witness ==
    /\ ret.op = "record_job_failure"
    /\ ret.id \notin DOMAIN jobs
    /\ DOMAIN jobs # {}
    /\ metrics.jobs_failed = 0

----------------------------------------------------------------------------
(* C15 *)

\* C15: jobs_completed counts the transitions to COMPLETED, one for one: a
\* step raises it by the number of jobs that become COMPLETED in the step,
\* and a recordSuccess on a job that is COMPLETED already leaves it alone.
C15_CompletedCountedOnce ==
    [][ /\ metrics'.jobs_completed = metrics.jobs_completed +
              Cardinality({ j \in DOMAIN jobs :
                  jobs[j].state # COMPLETED /\ jobs'[j].state = COMPLETED })
        /\ ret'.op = "log_job_success" /\ ret'.id \in DOMAIN jobs
           /\ jobs[ret'.id].state = COMPLETED
           => metrics'.jobs_completed = metrics.jobs_completed ]_vars

----------------------------------------------------------------------------
(* C16 *)

\* C16: each failure recorded on an existing job raises jobs_failed by
\* exactly 1 (and attempts by 1), whether the job becomes FAILED or DEAD;
\* nothing else changes jobs_failed, so it never decreases.  jobs_failed >=
\* the sum of attempts always, and the difference moves only in a step where
\* retryDead revives a job: it is 0 as long as none has.
C16_FailedCounter ==
    /\ [](metrics.jobs_failed >= SumAttempts(jobs, DOMAIN jobs))
    /\ [][ /\ metrics'.jobs_failed = metrics.jobs_failed +
                Cardinality({ j \in DOMAIN jobs :
                    jobs'[j].attempts > jobs[j].attempts })
           /\ \A j \in DOMAIN jobs :
                 jobs'[j].attempts > jobs[j].attempts
                 => /\ jobs'[j].attempts = jobs[j].attempts + 1
                    /\ jobs'[j].state \in {FAILED, DEAD}
           /\ (\A j \in DOMAIN jobs :
                 ~(jobs[j].state = DEAD /\ jobs'[j].state = PENDING))
              => metrics'.jobs_failed - SumAttempts(jobs', DOMAIN jobs')
                 = metrics.jobs_failed - SumAttempts(jobs, DOMAIN jobs) ]_vars

\* Two failures recorded, one that left its job FAILED and one that moved
\* its job to DEAD: jobs_failed is 2, the sum of attempts
C16_Witness ==
    /\ metrics.jobs_failed = 2
    /\ SumAttempts(jobs, DOMAIN jobs) = 2
    /\ \E j, k \in DOMAIN jobs : jobs[j].state = FAILED /\ jobs[k].state = DEAD

----------------------------------------------------------------------------
(* C17 *)

\* C17: once a stop signal has set running to false, wherever in its loop
\* the worker is, the worker eventually leaves the loop (run() ends); and
\* once it has, no job it claimed is PROCESSING: every PROCESSING job is in
\* flight at another worker.
C17_CooperativeShutdown ==
    /\ \A w \in Workers : (~running[w]) ~> (pc[w] \in {"stopped", "raised"})
    /\ [](\A w \in Workers :
            ~running[w] /\ pc[w] \in {"stopped", "raised"}
            => \A j \in DOMAIN jobs :
                  jobs[j].state = PROCESSING
                  => \E v \in Workers \ {w} : InFlight(v) /\ held[v] = j)

----------------------------------------------------------------------------
(* C18 *)

\* C18: an execution that ends with a non-zero exit, a thrown error or a
\* timeout is a failure the worker has to record, and from then until the
\* worker is back at the claim of its next job the job stays PROCESSING with
\* its attempts; the step that brings the worker back is recordFailure on
\* that job: attempts + 1, FAILED or DEAD, the error of the result stored,
\* which for a command that timed out is the timeout message.  The job is
\* never COMPLETED by it and the worker never claims with a failure pending.
C18_FailuresAreRecorded ==
    [][ \A w \in Workers :
          LET j == held[w]
          IN  /\ pc[w] = "exec" /\ pc'[w] # "exec" /\ jobs[j].command # CMD_ANY
                 => FailurePending(w)'
              /\ ClaimCall(w) => ~FailurePending(w)
              /\ FailurePending(w)
                 => \/ /\ FailurePending(w)'
                       /\ jobs'[j].state = PROCESSING
                       /\ jobs'[j].attempts = jobs[j].attempts
                    \/ /\ pc'[w] = "poll"
                       /\ jobs'[j].attempts = jobs[j].attempts + 1
                       /\ jobs'[j].state \in {FAILED, DEAD}
                       /\ jobs'[j].error = result[w].error
                       /\ jobs[j].command = CMD_SLOW
                          => jobs'[j].error = ERR_TIMEOUT ]_vars

----------------------------------------------------------------------------
(* C19 *)

\* C19: with fair workers, commands that end and time that advances, every
\* job created eventually is COMPLETED or DEAD; a job whose command succeeds
\* ends COMPLETED for good, and a job whose command always fails ends DEAD
\* for good, in the DLQ listing.
C19_EveryJobEnds ==
    \A j \in JobIds :
        /\ (j \in DOMAIN jobs)
              ~> (j \in list_jobs_by_state(jobs, COMPLETED)
                                \cup list_jobs_by_state(jobs, DEAD))
        /\ (j \in DOMAIN jobs /\ jobs[j].command = CMD_PASS)
              ~> [](j \in list_jobs_by_state(jobs, COMPLETED))
        /\ (j \in DOMAIN jobs /\ jobs[j].command = CMD_FAIL)
              ~> [](j \in list_jobs_by_state(jobs, DEAD))

\* The end of test_core_flow.py: job-pass COMPLETED, job-fail in the DLQ
\* after its retries
C19_Witness ==
    \E j, k \in DOMAIN jobs :
        /\ jobs[j].command = CMD_PASS /\ jobs[j].state = COMPLETED
        /\ jobs[k].command = CMD_FAIL /\ k \in list_jobs_by_state(jobs, DEAD)
        /\ jobs[k].attempts = jobs[k].max_retries

----------------------------------------------------------------------------
(* C20 *)

\* C20: a PROCESSING job that no live worker holds (its worker ended between
\* the claim and the record of the outcome) is not lost and is never
\* claimed or changed again: its row stays, field for field.
C20_OrphanStaysProcessing ==
    [][ \A j \in DOMAIN jobs :
          jobs[j].state = PROCESSING /\ Holders(j) = {}
          => j \in DOMAIN jobs' /\ jobs'[j] = jobs[j] ]_vars

\* A worker was killed with its job; the job is PROCESSING still, after the
\* other worker has completed a job claimed later
C20_Witness ==
    \E w \in Workers : \E k \in DOMAIN jobs :
        /\ pc[w] = "crashed"
        /\ jobs[held[w]].state = PROCESSING
        /\ Holders(held[w]) = {}
        /\ jobs[k].state = COMPLETED
        /\ jobs[k].updated_at > jobs[held[w]].updated_at

----------------------------------------------------------------------------
(* C21 *)

\* Malformed as the claim lists it: id or command missing, a run_at that is
\* not ISO 8601, a timeout or a priority that is not positive
Malformed(p) ==
    \/ p.id = NoJob
    \/ p.command = NoCommand
    \/ p.run_at = NotIso
    \/ p.timeout <= 0
    \/ p.priority <= 0

\* C21: the enqueue command given a malformed payload does not call create,
\* and no job is created from it: the jobs table is as it was.
C21_MalformedPayloadIsRejected ==
    [][ ret'.op = "enqueue" /\ Malformed(ret'.payload)
        => ret'.val # ENQ_CREATE /\ jobs' = jobs ]_vars

----------------------------------------------------------------------------
(* C22 *)

\* C22: recordFailure is atomic across its read and its write.  The write of
\* a call acts on the attempts the job has at that moment (no other call has
\* acted on the value it observed), so every call on an existing job adds 1
\* to attempts, and attempts stays equal to the increments of jobs_failed:
\* two concurrent calls on one job leave attempts raised by 2.
C22_NoLostUpdate ==
    /\ [](metrics.jobs_failed = SumAttempts(jobs, DOMAIN jobs))
    /\ [][ \A w \in Workers :
             pc[w] = "fail_write" /\ pc'[w] # "fail_write"
             => /\ w_row[w].attempts = jobs[held[w]].attempts
                /\ jobs'[held[w]].attempts = jobs[held[w]].attempts + 1 ]_vars

----------------------------------------------------------------------------
(* C23 *)

\* C23: in the worker-driven system a job has a retry_at exactly when it is
\* FAILED.
C23_RetryAtIffFailed ==
    \A j \in DOMAIN jobs : jobs[j].retry_at # NULL <=> jobs[j].state = FAILED

\* A job waits for its retry with a retry_at in the future, beside a job
\* that was claimed again after a failure and has no retry_at any more
C23_Witness ==
    \E j, k \in DOMAIN jobs :
        /\ jobs[j].state = FAILED /\ jobs[j].retry_at > now
        /\ jobs[k].state = PROCESSING /\ jobs[k].attempts >= 1
        /\ jobs[k].retry_at = NULL

----------------------------------------------------------------------------
(* C24 *)

\* The text a column shows: a NULL column shows no text
TextOf(col) == IF col = NoOutput \/ col = NoError THEN "" ELSE col

\* The step is worker w's record of the outcome of the execution it reports
Records(w) ==
    \/ pc[w] = "report" /\ result[w].success /\ pc'[w] = "poll"
    \/ pc[w] = "fail_write" /\ pc'[w] = "poll"

\* C24: once the worker has recorded an execution, the job's output and
\* error are the stdout and the error text of that execution, whether it
\* succeeded or failed: nothing of an earlier attempt is left in them.
C24_FieldsOfLastAttempt ==
    [][ \A w \in Workers :
          Records(w)
          => /\ TextOf(jobs'[held[w]].output) = result[w].output
             /\ TextOf(jobs'[held[w]].error) = result[w].error ]_vars

----------------------------------------------------------------------------
(* C25 *)

\* C25: a storage failure that passes costs time only.  No worker ends by an
\* exception; a claimNext that fails changes no job and sends the worker to
\* sleep, as when no job was found; and with the storage working again
\* every job, the ones whose claim or record failed included, eventually is
\* COMPLETED or DEAD.
C25_StorageFailureOnlyDelays ==
    /\ [](\A w \in Workers : pc[w] # "raised")
    /\ [][ \A w \in Workers :
             ClaimCall(w) /\ FirstInOrder(jobs, now) # {} /\ ~Returned(w)
             => jobs' = jobs /\ pc'[w] = "sleep" ]_vars
    /\ \A j \in JobIds :
          (j \in DOMAIN jobs)
             ~> (j \in list_jobs_by_state(jobs, COMPLETED)
                               \cup list_jobs_by_state(jobs, DEAD))

----------------------------------------------------------------------------
(* C26 *)

\* The fields of a row that are given at creation
SameAsCreated(old, new) ==
    /\ new.command = old.command
    /\ new.priority = old.priority
    /\ new.max_retries = old.max_retries
    /\ new.timeout = old.timeout
    /\ new.created_at = old.created_at
    /\ new.run_at = old.run_at

\* C26: no step removes a job or changes the command, priority, max_retries,
\* timeout, created_at or run_at a job was created with (its id is its key),
\* and claimNext, recordSuccess, recordFailure and retryDead change no field
\* of any job but the one they are applied to.
C26_FrameOfTheOperations ==
    [][ /\ DOMAIN jobs \subseteq DOMAIN jobs'
        /\ \A j \in DOMAIN jobs : SameAsCreated(jobs[j], jobs'[j])
        /\ ret'.op \in {"find_next_job", "log_job_success",
                        "record_job_failure", "retry_dead_job"}
           => \A j \in DOMAIN jobs : j # ret'.id => jobs'[j] = jobs[j] ]_vars

\* A job has been claimed, failed, revived or claimed again, and completed,
\* while another job created at a later time has not been touched
C26_Witness ==
    \E j, k \in DOMAIN jobs :
        /\ jobs[j].state = COMPLETED /\ jobs[j].attempts >= 1
        /\ jobs[k].state = PENDING /\ jobs[k].updated_at = jobs[k].created_at
        /\ jobs[k].created_at > jobs[j].created_at
        /\ ret.op = "log_job_success" /\ ret.id = j

----------------------------------------------------------------------------
(* C27 *)

\* C27: max_retries bounds the executions of a life (from the creation or
\* the last revival on).  No job is ever executed more than max_retries
\* times; a DEAD job has been executed exactly max_retries times, a
\* COMPLETED job at most that; and a job with max_retries = 1 is DEAD from
\* its first recorded failure.
C27_BoundedExecutions ==
    /\ [](\A j \in DOMAIN jobs :
            /\ executions[j] <= jobs[j].max_retries
            /\ jobs[j].state = DEAD => executions[j] = jobs[j].max_retries
            /\ jobs[j].state = COMPLETED => executions[j] >= 1)
    /\ [][ \A j \in DOMAIN jobs :
             jobs[j].max_retries = 1 /\ jobs'[j].attempts > jobs[j].attempts
             => jobs'[j].state = DEAD ]_vars

\* A job died of its second failure in the life that began with its
\* revival, beside a job that completed on its last permitted execution
C27_Witness ==
    \E j, k \in DOMAIN jobs :
        /\ jobs[j].state = DEAD /\ executions[j] = 2
        /\ metrics.jobs_failed > executions[j]
        /\ jobs[k].state = COMPLETED /\ executions[k] = jobs[k].max_retries

----------------------------------------------------------------------------
(* C28 *)

\* A PENDING job that has the error of a failure stored: it died and was
\* revived (nothing else makes a job that failed PENDING)
RevivedPending(js, j) == js[j].state = PENDING /\ js[j].error # NoError

\* C28: a revived job is eligible at once and keeps its place in the queue.
\* Every DEAD job has run_at <= now; the step that revives a job leaves its
\* run_at, created_at and priority as they were, so the job is eligible in
\* the state it produces; and a claim made while a revived job waits returns
\* a job, which is the revived job, a job of higher priority, or a job of
\* the same priority that was not created after it.
C28_RevivedKeepsItsPlace ==
    /\ [](\A j \in list_jobs_by_state(jobs, DEAD) : Instant(jobs[j].run_at) <= now)
    /\ [][ \A j \in DOMAIN jobs :
             jobs[j].state = DEAD /\ jobs'[j].state = PENDING
             => /\ jobs'[j].run_at = jobs[j].run_at
                /\ jobs'[j].created_at = jobs[j].created_at
                /\ jobs'[j].priority = jobs[j].priority
                /\ j \in SpecEligible(jobs', now') ]_vars
    /\ [][ \A w \in Workers : \A r \in DOMAIN jobs :
             ClaimCall(w) /\ RevivedPending(jobs, r)
             => /\ Returned(w)
                /\ \/ held'[w] = r
                   \/ jobs[held'[w]].priority > jobs[r].priority
                   \/ /\ jobs[held'[w]].priority = jobs[r].priority
                      /\ jobs[held'[w]].created_at <= jobs[r].created_at ]_vars

====
